---- MODULE Spec2Model ----
(***************************************************************************)
(* Model of stock-kd-bot: the live KD signal classifier (main.py           *)
(* check_kd_signal), the market trend filter and the notification gate of  *)
(* main.py main, and the backtest simulator of backtest.py run_backtest.   *)
(*                                                                         *)
(* Numbers are integers.  Money amounts are whole currency units; index    *)
(* levels are kept in tenths so that the ":.0f" formatting of the trend    *)
(* rationale is a real rounding.  Ratios (roi, win_rate) are exact         *)
(* fractions in lowest terms.                                              *)
(***************************************************************************)
EXTENDS Integers, Sequences, FiniteSets, TLC

\* ------------------------------------------------------------------------
\* Bounds and program constants
\* ------------------------------------------------------------------------

\* Largest number of loop iterations of run_backtest that is explored.
MaxDays == 3

START_FUNDS == 100000

\* A not-a-number cell of the data frame, and a Python None (an indicator
\* series that could not be computed at all).  Real values are >= 0 here.
NaN == 0 - 1
None == 0 - 2

\* ------------------------------------------------------------------------
\* Value domains of the inputs
\* ------------------------------------------------------------------------

KVals == {10, 15, 20, 80, 85, 90}
DVals == {12, 88}
Prices == {30000, 35000, 60000, 150000}
MaVals == {30000}
RsiVals == {40, 70, 75}
HistVals == {0, 1}

\* Windows handed to the classifiers: any cell may be NaN, and the SMA(60),
\* RSI and MACD series may be None (pandas_ta returns None for a short series,
\* and then the column is absent on both days).
Windows ==
    {w \in [k : KVals \cup {NaN}, d : DVals \cup {NaN},
            k_prev : KVals \cup {NaN}, d_prev : DVals \cup {NaN},
            price : Prices, ma60 : MaVals \cup {NaN, None}, rsi : RsiVals \cup {NaN, None},
            hist : HistVals \cup {NaN, None}, hist_prev : HistVals \cup {NaN, None}] :
        (w.hist = None) <=> (w.hist_prev = None)}

\* Rows of the data frame of run_backtest after df.dropna(): no cell is NaN.
Rows ==
    [Close : Prices, k : KVals \ {20, 80}, d : DVals, ma60 : MaVals,
     rsi : RsiVals \ {40}, hist : HistVals]

NoWindow ==
    [k |-> NaN, d |-> NaN, k_prev |-> NaN, d_prev |-> NaN, price |-> NaN,
     ma60 |-> NaN, rsi |-> NaN, hist |-> NaN, hist_prev |-> NaN]

\* Index levels, in tenths of a point.
IdxVals == {179996, 180000, 180004, 180005, 180015}

\* Inputs of check_market_trend: the download raised, or it returned len bars;
\* with at least 20 bars the SMA_20 column is there or not, and its last cell
\* is a number or NaN.
MarketInputs ==
    [raises : {TRUE}, len : {0}, hasCol : {FALSE}, close : {NaN}, ma20 : {NaN}]
    \cup [raises : {FALSE}, len : {0, 19}, hasCol : {FALSE}, close : {NaN}, ma20 : {NaN}]
    \cup [raises : {FALSE}, len : {20, 40}, hasCol : {FALSE}, close : IdxVals, ma20 : {NaN}]
    \cup [raises : {FALSE}, len : {20, 40}, hasCol : {TRUE}, close : IdxVals,
          ma20 : IdxVals \cup {NaN}]

NoMarket == [raises |-> FALSE, len |-> 0, hasCol |-> FALSE, close |-> NaN, ma20 |-> NaN]

Tickers == {"2330", "2603"}

\* Subscriber sheets: rows of userId and ticker, either of which may be blank.
RecordSets ==
    { << [userId |-> "U1", ticker |-> "2330"], [userId |-> "U2", ticker |-> "2603"] >>,
      << [userId |-> "U1", ticker |-> "2330"], [userId |-> "", ticker |-> "2330"],
         [userId |-> "U2", ticker |-> "2330"] >>,
      << [userId |-> "U1", ticker |-> ""], [userId |-> "U2", ticker |-> "2603"] >> }

\* Windows the live run meets: enough to produce every signal.
LiveWindows ==
    [k : {15, 85}, d : {12, 88}, k_prev : {10, 90}, d_prev : {12, 88},
     price : {35000}, ma60 : {30000}, rsi : {40, 75}, hist : {0}, hist_prev : {0, 1}]

\* The batch of backtest.py __main__ (the first two of TICKERS).
BatchTickers == <<"2330.TW", "0050.TW">>

NoRow == [Close |-> NaN, k |-> NaN, d |-> NaN, ma60 |-> NaN, rsi |-> NaN, hist |-> NaN]

VARIABLES
    win,            \* the two-day window: the locals k, d, k_prev, d_prev, price, ma60, rsi, hist, hist_prev
    cpc,            \* classifier harness: "input" | "done"
    liveSignal,     \* return value signal of check_kd_signal
    btSignal,       \* decision of the run_backtest loop body on the same window
    bpc,            \* run_backtest: "start" | "loop" | "done" | "none" | "error"
    i,              \* number of loop iterations executed
    row,            \* the last row read: df.iloc[0] before the loop, then today
    cash, position, entry_price, trades, wins, total_profit,
    final_value, roi, win_rate,
    mpc,            \* main: "start" | "sheets" | "check" | "notify" | "done"
    mkt,            \* what yf.download("^TWII") and the SMA(20) gave check_market_trend
    trend, trend_msg,
    records,        \* worksheet.get_all_records()
    todo,           \* tickers the signal loop has not visited yet
    signal,         \* per ticker, the signal check_kd_signal returned
    ticker_signals, \* the dict of signals kept for delivery
    idx,            \* position of the notification loop in records
    pushed,         \* calls of push_flex_notification: <<userId, ticker, type>>
    sent,           \* the calls LINE accepted
    xpc,            \* backtest.py __main__: "idle" | "loop" | "running" | "printed" | "crashed"
    tleft,          \* tickers of "for t in TICKERS" not yet returned from
    results         \* the results list

cvars == <<win, cpc, liveSignal, btSignal>>
bvars == <<bpc, i, row, cash, position, entry_price, trades, wins, total_profit,
           final_value, roi, win_rate>>
mvars == <<mpc, mkt, trend, trend_msg, records, todo, signal, ticker_signals, idx, pushed, sent>>
xvars == <<xpc, tleft, results>>
vars == <<cvars, bvars, mvars, xvars>>

\* ------------------------------------------------------------------------
\* Float comparisons: every comparison with NaN is False
\* ------------------------------------------------------------------------

Lt(a, b) == a # NaN /\ b # NaN /\ a < b

Gt(a, b) == a # NaN /\ b # NaN /\ a > b

\* ------------------------------------------------------------------------
\* main.py check_kd_signal: the decision on the latest two bars
\* ------------------------------------------------------------------------

\* ma60_val = sma60.iloc[-1] if sma60 is not None else 0
Ma60Val(w) == IF w.ma60 = None THEN 0 ELSE w.ma60

\* rsi_val = rsi.iloc[-1] if rsi is not None else 50
RsiVal(w) == IF w.rsi = None THEN 50 ELSE w.rsi

LiveBuyCross(w) == Lt(w.k, 20) /\ Lt(w.k_prev, w.d_prev) /\ Gt(w.k, w.d)

\* the SELL test written as a copy of the BUY test
LiveSellCrossCopied(w) == LiveBuyCross(w)

LiveSellCross(w) == Gt(w.k, 80) /\ Gt(w.k_prev, w.d_prev) /\ Lt(w.k, w.d)

check_kd_signal(w) ==
    IF LiveBuyCross(w)
    THEN (IF Gt(w.price, Ma60Val(w)) THEN "BUY" ELSE "None")
    ELSE IF LiveSellCross(w)
         THEN (IF Gt(RsiVal(w), 70) THEN "HOLD" ELSE "SELL")
         ELSE "None"

\* ------------------------------------------------------------------------
\* backtest.py run_backtest: the per-day decision
\* ------------------------------------------------------------------------

\* today.get(col, default): the default is used when the column is absent
Get(v, default) == IF v = None THEN default ELSE v

trend_up(w) == Gt(w.price, Get(w.ma60, 0))

momentum_up(w) == Gt(Get(w.hist, 0), Get(w.hist_prev, 0))

base_buy(w) == Lt(w.k, 20) /\ Lt(w.k_prev, w.d_prev) /\ Gt(w.k, w.d)

buy_signal(w) == base_buy(w) /\ trend_up(w) /\ momentum_up(w)

base_sell(w) == Gt(w.k, 80) /\ Gt(w.k_prev, w.d_prev) /\ Lt(w.k, w.d)

strong_momentum(w) == Gt(Get(w.rsi, 50), 70)

sell_signal(w) == base_sell(w) /\ ~strong_momentum(w)

\* The day's signal as the loop body acts on it: buy_signal is tested first,
\* sell_signal second; a vetoed dead cross is the day the position is held.
BacktestSignal(w) ==
    IF buy_signal(w) THEN "BUY"
    ELSE IF sell_signal(w) THEN "SELL"
    ELSE IF base_sell(w) /\ strong_momentum(w) THEN "HOLD"
    ELSE "None"

\* ------------------------------------------------------------------------
\* Classifier harness: one window in, both decisions out
\* ------------------------------------------------------------------------

InitMainVars ==
    /\ mpc = "start" /\ mkt = NoMarket
    /\ trend = "unset" /\ trend_msg = [kind |-> "unset", price |-> NaN, ma20 |-> NaN]
    /\ records = << >> /\ todo = {}
    /\ signal = [t \in Tickers |-> "unset"]
    /\ ticker_signals = [t \in {} |-> "None"]
    /\ idx = 0 /\ pushed = {} /\ sent = {}

InitBatchVars == xpc = "idle" /\ tleft = << >> /\ results = << >>

InitBacktestVars ==
    /\ bpc = "start" /\ i = 0 /\ row = NoRow
    /\ cash = START_FUNDS /\ position = 0 /\ entry_price = 0
    /\ trades = 0 /\ wins = 0 /\ total_profit = 0
    /\ final_value = 0 /\ roi = [num |-> 0, den |-> 1] /\ win_rate = [num |-> 0, den |-> 1]

InitClassifier ==
    /\ win \in Windows
    /\ cpc = "input" /\ liveSignal = "unset" /\ btSignal = "unset"
    /\ InitBacktestVars
    /\ InitMainVars
    /\ InitBatchVars

Classify ==
    /\ cpc = "input"
    /\ liveSignal' = check_kd_signal(win)
    /\ btSignal' = BacktestSignal(win)
    /\ cpc' = "done"
    /\ UNCHANGED <<win, bvars, mvars, xvars>>

NextClassifier == Classify

SpecClassifier == InitClassifier /\ [][NextClassifier]_vars

\* ------------------------------------------------------------------------
\* backtest.py run_backtest: the simulation
\* ------------------------------------------------------------------------

RECURSIVE GCD(_, _)
GCD(a, b) == IF b = 0 THEN a ELSE GCD(b, a % b)

Abs(n) == IF n < 0 THEN 0 - n ELSE n

\* The exact value of n / d (d > 0) as a fraction in lowest terms.
Ratio(n, d) ==
    LET g == GCD(Abs(n), d)
    IN  [num |-> n \div g, den |-> d \div g]

\* the share count rounded up instead of down
SharesRoundedUp(c, p) == (c + p - 1) \div p

\* shares = int(cash // price)
Shares(c, p) == c \div p

\* the entry test without "position == 0"
EnterGuardAnyPosition(pos, w) == buy_signal(w)

\* if position == 0 and buy_signal
EnterGuard(pos, w) == pos = 0 /\ buy_signal(w)

\* elif position > 0 and sell_signal
ExitGuard(pos, w) == pos > 0 /\ sell_signal(w)

\* the cost of a single share
BuyCostOneShare(shares, p) == p

\* cost = shares * price
BuyCost(shares, p) == shares * p

\* revenue = position * price
Revenue(pos, p) == pos * p

\* the entry cost of one share only
ProfitPerShareCost(pos, p, e) == Revenue(pos, p) - e

\* profit = revenue - (position * entry_price)
Profit(pos, p, e) == Revenue(pos, p) - pos * e

\* a break-even exit counted as a win
IsWinOrEven(profit) == profit >= 0

\* if profit > 0: wins += 1
IsWin(profit) == profit > 0

\* the open position left out of the end value
FinalValueCashOnly(c, pos, close) == c

\* final_value = cash + (position * df.iloc[-1]['Close'])
FinalValue(c, pos, close) == c + pos * close

\* roi = ((final_value - START_FUNDS) / START_FUNDS) * 100
Roi(fv) == Ratio((fv - START_FUNDS) * 100, START_FUNDS)

\* win_rate = (wins / trades * 100) if trades > 0 else 0
WinRate(w, t) == IF t > 0 THEN Ratio(w * 100, t) ELSE Ratio(0, 1)

\* locals of one loop iteration, read from prev = df.iloc[i-1] and today = df.iloc[i]
Window(prev, today) ==
    [price |-> today.Close, k |-> today.k, d |-> today.d,
     k_prev |-> prev.k, d_prev |-> prev.d,
     ma60 |-> today.ma60, rsi |-> today.rsi,
     hist |-> today.hist, hist_prev |-> prev.hist]

InitBacktest ==
    /\ win = NoWindow
    /\ cpc = "input" /\ liveSignal = "unset" /\ btSignal = "unset"
    /\ InitBacktestVars
    /\ InitMainVars
    /\ InitBatchVars

\* yf.download returned an empty frame, or df.ta.stoch returned None: return None
LoadNothing ==
    /\ bpc = "start"
    /\ bpc' = "none"
    /\ UNCHANGED <<cvars, mvars, xvars, i, row, cash, position, entry_price, trades, wins,
                   total_profit, final_value, roi, win_rate>>

\* df.dropna() left no row: the loop body never runs and df.iloc[-1] raises IndexError
LoadNoRows ==
    /\ bpc = "start"
    /\ bpc' = "error"
    /\ UNCHANGED <<cvars, mvars, xvars, i, row, cash, position, entry_price, trades, wins,
                   total_profit, final_value, roi, win_rate>>

\* df.dropna() left at least one row; df.iloc[0] is only ever read as prev
LoadRows(r0) ==
    /\ bpc = "start"
    /\ bpc' = "loop"
    /\ row' = r0
    /\ UNCHANGED <<cvars, mvars, xvars, i, cash, position, entry_price, trades, wins,
                   total_profit, final_value, roi, win_rate>>

\* one iteration of "for i in range(1, len(df))" with today = r
Day(r) ==
    /\ bpc = "loop"
    /\ i < MaxDays
    /\ LET w == Window(row, r)
           price == w.price
           shares == Shares(cash, price)
           profit == Profit(position, price, entry_price)
       IN  /\ win' = w
           /\ IF EnterGuard(position, w)
              THEN IF shares > 0
                   THEN /\ cash' = cash - BuyCost(shares, price)
                        /\ position' = shares
                        /\ entry_price' = price
                        /\ UNCHANGED <<trades, wins, total_profit>>
                   ELSE UNCHANGED <<cash, position, entry_price, trades, wins, total_profit>>
              ELSE IF ExitGuard(position, w)
                   THEN /\ cash' = cash + Revenue(position, price)
                        /\ trades' = trades + 1
                        /\ wins' = IF IsWin(profit) THEN wins + 1 ELSE wins
                        /\ total_profit' = total_profit + profit
                        /\ position' = 0
                        /\ UNCHANGED entry_price
                   ELSE UNCHANGED <<cash, position, entry_price, trades, wins, total_profit>>
    /\ row' = r
    /\ i' = i + 1
    /\ UNCHANGED <<cpc, liveSignal, btSignal, mvars, xvars, bpc, final_value, roi, win_rate>>

\* the loop is over: end value and the returned statistics
Finish ==
    /\ bpc = "loop"
    /\ final_value' = FinalValue(cash, position, row.Close)
    /\ roi' = Roi(FinalValue(cash, position, row.Close))
    /\ win_rate' = WinRate(wins, trades)
    /\ bpc' = "done"
    /\ UNCHANGED <<cvars, mvars, xvars, i, row, cash, position, entry_price, trades, wins, total_profit>>

NextBacktest ==
    \/ LoadNothing
    \/ LoadNoRows
    \/ \E r \in Rows : LoadRows(r)
    \/ \E r \in Rows : Day(r)
    \/ Finish

SpecBacktest == InitBacktest /\ [][NextBacktest]_vars

\* ------------------------------------------------------------------------
\* backtest.py __main__: the batch over TICKERS
\* ------------------------------------------------------------------------

\* the dict run_backtest returns
Result(t) == [ticker |-> t, roi |-> roi, win_rate |-> win_rate, trades |-> trades]

InitBatch ==
    /\ win = NoWindow
    /\ cpc = "input" /\ liveSignal = "unset" /\ btSignal = "unset"
    /\ InitBacktestVars
    /\ InitMainVars
    /\ xpc = "loop" /\ tleft = BatchTickers /\ results = << >>

\* res = run_backtest(t): the call starts with fresh locals
BatchCall ==
    /\ xpc = "loop"
    /\ tleft # << >>
    /\ xpc' = "running"
    /\ win' = NoWindow
    /\ bpc' = "start" /\ i' = 0 /\ row' = NoRow
    /\ cash' = START_FUNDS /\ position' = 0 /\ entry_price' = 0
    /\ trades' = 0 /\ wins' = 0 /\ total_profit' = 0
    /\ final_value' = 0 /\ roi' = [num |-> 0, den |-> 1] /\ win_rate' = [num |-> 0, den |-> 1]
    /\ UNCHANGED <<cpc, liveSignal, btSignal, mvars, tleft, results>>

\* the body of run_backtest, one step at a time
BatchRun ==
    /\ xpc = "running"
    /\ NextBacktest

\* run_backtest returned a dict or None: "if res: results.append(res)"
BatchReturn ==
    /\ xpc = "running"
    /\ bpc \in {"done", "none"}
    /\ results' = IF bpc = "done" THEN Append(results, Result(Head(tleft))) ELSE results
    /\ tleft' = Tail(tleft)
    /\ xpc' = "loop"
    /\ UNCHANGED <<cvars, bvars, mvars>>

\* run_backtest raised (IndexError from df.iloc[-1]): nothing catches it, the
\* for loop and the script end with the traceback
BatchRaise ==
    /\ xpc = "running"
    /\ bpc = "error"
    /\ xpc' = "crashed"
    /\ UNCHANGED <<cvars, bvars, mvars, tleft, results>>

\* the loop is over: the table of results is printed
BatchPrint ==
    /\ xpc = "loop"
    /\ tleft = << >>
    /\ xpc' = "printed"
    /\ UNCHANGED <<cvars, bvars, mvars, tleft, results>>

NextBatch ==
    \/ BatchCall
    \/ BatchRun
    \/ BatchReturn
    \/ BatchRaise
    \/ BatchPrint

SpecBatch == InitBatch /\ [][NextBatch]_vars

\* ------------------------------------------------------------------------
\* main.py check_market_trend
\* ------------------------------------------------------------------------

\* f"{x:.0f}" of a value held in tenths: round to the nearest integer, ties to even
Fmt0(x) ==
    LET q == x \div 10
        r == x % 10
    IN  IF r < 5 THEN q
        ELSE IF r > 5 THEN q + 1
        ELSE IF q % 2 = 0 THEN q ELSE q + 1

Msg(kind, p, m) == [kind |-> kind, price |-> p, ma20 |-> m]

\* if df.empty or len(df) < 20
TooShort(m) == m.len = 0 \/ m.len < 20

\* the comparison made non-strict
IndexAtOrAbove(p, m) == p # NaN /\ m # NaN /\ p >= m

\* if price > ma20
IndexAbove(p, m) == Gt(p, m)

check_market_trend(m) ==
    IF m.raises THEN [trend |-> "UP", msg |-> Msg("error", NaN, NaN)]
    ELSE IF TooShort(m) THEN [trend |-> "UP", msg |-> Msg("insufficient", NaN, NaN)]
    ELSE IF ~m.hasCol THEN [trend |-> "UP", msg |-> Msg("ma_failed", NaN, NaN)]
    ELSE IF m.ma20 = NaN THEN [trend |-> "UP", msg |-> Msg("ma_nan", NaN, NaN)]
    ELSE IF IndexAbove(m.close, m.ma20)
         THEN [trend |-> "UP", msg |-> Msg("strong", Fmt0(m.close), Fmt0(m.ma20))]
         ELSE [trend |-> "DOWN", msg |-> Msg("weak", Fmt0(m.close), Fmt0(m.ma20))]

\* ------------------------------------------------------------------------
\* main.py main
\* ------------------------------------------------------------------------

\* the filter testing the wrong signal
GateBlocksSell(s, t) == s = "SELL" /\ t = "DOWN"

\* if signal == 'BUY' and trend == 'DOWN': ... continue
GateBlocks(s, t) == s = "BUY" /\ t = "DOWN"

\* tickers = list(set([str(r['ticker']) for r in records if r['ticker']]))
UniqueTickers(rs) == {rs[n].ticker : n \in {m \in 1..Len(rs) : rs[m].ticker # ""}}

\* ticker_signals[ticker] = {...}
Keep(ts, t, entry) == [x \in DOMAIN ts \cup {t} |-> IF x = t THEN entry ELSE ts[x]]

InitMain ==
    /\ win = NoWindow
    /\ cpc = "input" /\ liveSignal = "unset" /\ btSignal = "unset"
    /\ InitBacktestVars
    /\ InitMainVars
    /\ InitBatchVars

\* trend, trend_msg = check_market_trend()
CheckMarketTrend(m) ==
    /\ mpc = "start"
    /\ mkt' = m
    /\ trend' = check_market_trend(m).trend
    /\ trend_msg' = check_market_trend(m).msg
    /\ mpc' = "sheets"
    /\ UNCHANGED <<cvars, bvars, xvars, records, todo, signal, ticker_signals, idx, pushed, sent>>

\* no credentials, no sheet URL, an exception from gspread, or no records: return
NoSubscribers ==
    /\ mpc = "sheets"
    /\ mpc' = "done"
    /\ UNCHANGED <<cvars, bvars, xvars, mkt, trend, trend_msg, records, todo, signal,
                   ticker_signals, idx, pushed, sent>>

ReadSubscribers(rs) ==
    /\ mpc = "sheets"
    /\ records' = rs
    /\ todo' = UniqueTickers(rs)
    /\ mpc' = "check"
    /\ UNCHANGED <<cvars, bvars, xvars, mkt, trend, trend_msg, signal, ticker_signals, idx, pushed, sent>>

\* one iteration of "for ticker in tickers": w is the window check_kd_signal
\* meets (NoWindow when it returns None early: short history, no stochastic,
\* an exception), fund what get_stock_fundamentals returns
CheckTicker(t, w, fund) ==
    /\ mpc = "check"
    /\ t \in todo
    /\ LET s == check_kd_signal(w)
       IN  /\ signal' = [signal EXCEPT ![t] = s]
           /\ IF s # "None" /\ ~GateBlocks(s, trend)
              THEN ticker_signals' =
                       Keep(ticker_signals, t, [type |-> s, fundamentals |-> fund])
              ELSE UNCHANGED ticker_signals
    /\ todo' = todo \ {t}
    /\ UNCHANGED <<cvars, bvars, xvars, mpc, mkt, trend, trend_msg, records, idx, pushed, sent>>

\* the signal loop is over: "if not ticker_signals: return"
EndCheck ==
    /\ mpc = "check"
    /\ todo = {}
    /\ IF DOMAIN ticker_signals = {}
       THEN mpc' = "done" /\ UNCHANGED idx
       ELSE mpc' = "notify" /\ idx' = 1
    /\ UNCHANGED <<cvars, bvars, xvars, mkt, trend, trend_msg, records, todo, signal,
                   ticker_signals, pushed, sent>>

\* one iteration of "for record in records"; outcome is what
\* push_flex_notification meets: the message is accepted, the token is
\* missing, LINE answers with LineBotApiError (caught), or another exception
\* escapes to main's except clause
Notify(outcome) ==
    /\ mpc = "notify"
    /\ idx <= Len(records)
    /\ LET uid == records[idx].userId
           t == records[idx].ticker
       IN  IF t \in DOMAIN ticker_signals /\ uid # ""
           THEN /\ pushed' = pushed \cup {<<uid, t, ticker_signals[t].type>>}
                /\ sent' = IF outcome = "ok"
                           THEN sent \cup {<<uid, t, ticker_signals[t].type>>}
                           ELSE sent
                /\ mpc' = IF outcome = "raise" THEN "done" ELSE mpc
           ELSE UNCHANGED <<pushed, sent, mpc>>
    /\ idx' = idx + 1
    /\ UNCHANGED <<cvars, bvars, xvars, mkt, trend, trend_msg, records, todo, signal, ticker_signals>>

EndNotify ==
    /\ mpc = "notify"
    /\ idx > Len(records)
    /\ mpc' = "done"
    /\ UNCHANGED <<cvars, bvars, xvars, mkt, trend, trend_msg, records, todo, signal,
                   ticker_signals, idx, pushed, sent>>

NextMain ==
    \/ \E m \in MarketInputs : CheckMarketTrend(m)
    \/ NoSubscribers
    \/ \E rs \in RecordSets : ReadSubscribers(rs)
    \/ \E t \in Tickers, w \in LiveWindows \cup {NoWindow}, fund \in {"None", "info"} : CheckTicker(t, w, fund)
    \/ EndCheck
    \/ \E outcome \in {"ok", "no_token", "line_error", "raise"} : Notify(outcome)
    \/ EndNotify

SpecMain == InitMain /\ [][NextMain]_vars

\* ------------------------------------------------------------------------
\* Signal classifier properties (SpecClassifier)
\* ------------------------------------------------------------------------

\* every value the decision reads is a number
Defined(w) ==
    /\ \A v \in {w.k, w.d, w.k_prev, w.d_prev, w.price, w.ma60, w.rsi, w.hist, w.hist_prev} :
           v # NaN /\ v # None

\* the predicates of the decision rule, on a window of numbers
oversold(w) == w.k < 20
overbought(w) == w.k > 80
gold_cross(w) == w.k_prev < w.d_prev /\ w.k > w.d
dead_cross(w) == w.k_prev > w.d_prev /\ w.k < w.d
BuyRule(w) == oversold(w) /\ gold_cross(w) /\ w.price > w.ma60 /\ w.hist > w.hist_prev
SellRule(w) == ~BuyRule(w) /\ overbought(w) /\ dead_cross(w)

\* C1: on every window of defined values, the live classifier and the
\* backtest decision alike emit Buy if and only if oversold, gold_cross,
\* trend_up and momentum_up all hold.
C1_BuyIffAllFour ==
    (cpc = "done" /\ Defined(win)) =>
        /\ (liveSignal = "BUY") <=> BuyRule(win)
        /\ (btSignal = "BUY") <=> BuyRule(win)

\* The half of C1 that the backtest decision satisfies.
C1_BacktestBuyIffAllFour ==
    (cpc = "done" /\ Defined(win)) => ((btSignal = "BUY") <=> BuyRule(win))

\* C2: on every window of defined values where the Buy rule does not fire and
\* overbought and dead_cross hold, the classifier emits Hold when rsi > 70 and
\* Sell otherwise; when neither rule fires it emits None.
C2_SellHoldElseNone ==
    (cpc = "done" /\ Defined(win)) =>
        \A s \in {liveSignal, btSignal} :
            /\ SellRule(win) => s = (IF win.rsi > 70 THEN "HOLD" ELSE "SELL")
            /\ (~BuyRule(win) /\ ~SellRule(win)) => s = "None"

\* The part of C2 that both classifiers satisfy: the Sell/Hold branch.
C2_SellHoldBranch ==
    (cpc = "done" /\ Defined(win) /\ SellRule(win)) =>
        \A s \in {liveSignal, btSignal} : s = (IF win.rsi > 70 THEN "HOLD" ELSE "SELL")

\* no cell of the window is NaN: what df.dropna() leaves to run_backtest
\* (an absent column is not a NaN cell)
NoNaN(w) ==
    \A v \in {w.k, w.d, w.k_prev, w.d_prev, w.price, w.ma60, w.rsi, w.hist, w.hist_prev} :
        v # NaN

\* C11: when any indicator value the decision reads is undefined or missing,
\* the classifier emits no Buy, Sell or Hold: check_kd_signal on any such
\* window, and the run_backtest decision on the windows dropna lets through.
C11_FailClosed ==
    (cpc = "done" /\ ~Defined(win)) =>
        /\ liveSignal = "None"
        /\ NoNaN(win) => btSignal = "None"

\* What does hold: an undefined %K or %D value yields no signal.
C11_UndefinedKDNoSignal ==
    (cpc = "done" /\ NaN \in {win.k, win.d, win.k_prev, win.d_prev}) =>
        liveSignal = "None" /\ btSignal = "None"

\* check_kd_signal with its two rules tested in the other order
SellRuleFirst(w) ==
    IF LiveSellCross(w)
    THEN (IF Gt(RsiVal(w), 70) THEN "HOLD" ELSE "SELL")
    ELSE IF LiveBuyCross(w)
         THEN (IF Gt(w.price, Ma60Val(w)) THEN "BUY" ELSE "None")
         ELSE "None"

\* C13: on every window the gold cross and the dead cross are never both
\* true, the Buy condition and the Sell/Hold condition are never both
\* satisfied, and the classifier's result is the same whichever rule is
\* tested first.
C13_CrossesExclusive ==
    cpc = "done" =>
        /\ ~(LiveBuyCross(win) /\ LiveSellCross(win))
        /\ ~(base_buy(win) /\ base_sell(win))
        /\ ~(buy_signal(win) /\ sell_signal(win))
        /\ Defined(win) => ~(gold_cross(win) /\ dead_cross(win))
        /\ liveSignal = SellRuleFirst(win)
        /\ (btSignal = "BUY") <=> buy_signal(win)
        /\ (btSignal = "SELL") <=> sell_signal(win)

\* an overbought dead cross: the Sell rule fires, the Buy rule does not
C13_Witness ==
    /\ cpc = "done" /\ Defined(win)
    /\ overbought(win) /\ dead_cross(win) /\ ~gold_cross(win)
    /\ liveSignal = "SELL" /\ btSignal = "SELL"

\* ------------------------------------------------------------------------
\* Backtest simulator properties (SpecBacktest)
\* ------------------------------------------------------------------------

\* a step of the day loop, and the signal of the day it processed
DayStep == bpc = "loop" /\ bpc' = "loop" /\ i' = i + 1

account == <<cash, position, entry_price, trades, wins, total_profit>>

\* C3: in every state of the day loop cash is never negative, the number of
\* shares held is a non-negative integer, and cash + shares * close of the
\* day is non-negative.
C3_NoNegativeCash ==
    /\ cash >= 0
    /\ position \in Nat
    /\ (bpc \in {"loop", "done"} /\ i > 0) => cash + position * win.price >= 0

C3_Witness == bpc = "loop" /\ position > 0 /\ cash > 0 /\ cash < win.price

\* C4: a Buy while Long, a Sell while Flat, and a Hold or None day in either
\* state leave cash, shares, entry price, trade count, win count and total
\* profit unchanged; a position is never added to.
C4_NoOpSignals ==
    [][DayStep =>
        LET s == BacktestSignal(win')
        IN  /\ ((s = "BUY" /\ position > 0) \/ (s = "SELL" /\ position = 0)
                    \/ s \in {"HOLD", "None"})
                => account' = account
            /\ position > 0 => position' \in {position, 0}]_vars

\* a Buy day met while Long with cash for at least one more share
C4_Witness ==
    /\ bpc = "loop" /\ i > 1 /\ position > 0
    /\ BacktestSignal(win) = "BUY" /\ cash >= win.price

\* C5: a Buy while Flat at close p with cash c buys exactly floor(c / p)
\* shares; if that is positive the simulator is Long with that many shares,
\* cash c - shares * p and entry price p, otherwise nothing changes.
C5_BuyFloorShares ==
    [][(DayStep /\ position = 0 /\ BacktestSignal(win') = "BUY") =>
        LET p == win'.price
        IN  IF cash >= p
            THEN /\ position' > 0
                 /\ position' * p <= cash /\ cash < (position' + 1) * p
                 /\ cash' = cash - position' * p
                 /\ entry_price' = p
                 /\ <<trades, wins, total_profit>>' = <<trades, wins, total_profit>>
            ELSE account' = account]_vars

\* a fill that leaves cash over: floor(100000 / 35000) = 2 shares
C5_Witness ==
    /\ bpc = "loop" /\ i = 1 /\ BacktestSignal(win) = "BUY"
    /\ position = 2 /\ entry_price = 35000 /\ cash = 30000

\* a Buy day the simulator could not afford: it stays Flat
C5_WitnessNoFill ==
    /\ bpc = "loop" /\ i = 1 /\ BacktestSignal(win) = "BUY"
    /\ position = 0 /\ cash = START_FUNDS /\ win.price > cash

\* C6: a Sell while Long with s shares entered at e, at close p, sells the
\* whole position: shares 0, cash + s * p, trade count + 1, total profit
\* + s * (p - e), win count + 1 exactly when s * (p - e) > 0.
C6_SellWholePosition ==
    [][(DayStep /\ position > 0 /\ BacktestSignal(win') = "SELL") =>
        LET p == win'.price
            realized == position * (p - entry_price)
        IN  /\ position' = 0
            /\ cash' = cash + position * p
            /\ trades' = trades + 1
            /\ total_profit' = total_profit + realized
            /\ wins' = IF realized > 0 THEN wins + 1 ELSE wins]_vars

\* a break-even exit: a trade that is not a win
C6_Witness ==
    /\ bpc = "loop" /\ position = 0 /\ BacktestSignal(win) = "SELL"
    /\ trades = 1 /\ wins = 0 /\ total_profit = 0 /\ cash = START_FUNDS
    /\ win.price = entry_price

\* C7: when the loop ends, final value = cash + shares * last close with an
\* open position left open and uncounted, roi = (final value - START_FUNDS)
\* / START_FUNDS * 100, and win rate = wins / trades * 100, or 0 without
\* a trade.
C7_EndStatistics ==
    [][(bpc = "loop" /\ bpc' = "done") =>
        /\ final_value' = cash + position * row.Close
        /\ roi'.den > 0
        /\ roi'.num * START_FUNDS = roi'.den * ((final_value' - START_FUNDS) * 100)
        /\ win_rate'.den > 0
        /\ IF trades > 0
           THEN win_rate'.num * trades = win_rate'.den * (wins * 100)
           ELSE win_rate'.num = 0
        /\ account' = account]_vars

\* a run that ends Long without a closed trade
C7_Witness ==
    /\ bpc = "done" /\ position > 0 /\ trades = 0
    /\ win_rate.num = 0 /\ final_value > cash /\ roi.num # 0

\* C14: with no position held cash equals START_FUNDS plus total_profit,
\* wins never exceed trades, and a run that ends Flat has final value
\* - START_FUNDS equal to the realized profits accumulated in total_profit.
C14_Accounting ==
    /\ position = 0 => cash = START_FUNDS + total_profit
    /\ wins <= trades
    /\ (bpc = "done" /\ position = 0) => final_value - START_FUNDS = total_profit

\* a run that ends Flat after a losing trade
C14_Witness ==
    /\ bpc = "done" /\ position = 0 /\ trades = 1 /\ wins = 0
    /\ total_profit < 0 /\ final_value = START_FUNDS + total_profit

\* ------------------------------------------------------------------------
\* Live run properties (SpecMain)
\* ------------------------------------------------------------------------

Visited(t) == signal[t] # "unset"

Kept(t) == t \in DOMAIN ticker_signals

\* the notification loop ran over every record
NotifiedAll == mpc = "done" /\ records # << >> /\ idx > Len(records)

\* C8: in a Down market no BUY notification is pushed for any ticker, while
\* SELL and HOLD signals are kept and pushed to their subscribers whatever
\* the regime; in an Up market every BUY signal is kept for delivery.
C8_MarketGate ==
    /\ trend = "DOWN" => \A n \in pushed \cup sent : n[3] # "BUY"
    /\ \A t \in Tickers : Visited(t) =>
           /\ signal[t] \in {"SELL", "HOLD"} => (Kept(t) /\ ticker_signals[t].type = signal[t])
           /\ (signal[t] = "BUY" /\ trend = "UP") => (Kept(t) /\ ticker_signals[t].type = "BUY")
           /\ (signal[t] = "BUY" /\ trend = "DOWN") => ~Kept(t)
    /\ NotifiedAll =>
           \A n \in 1..Len(records) :
               (records[n].userId # "" /\ records[n].ticker # ""
                    /\ signal[records[n].ticker] \in {"SELL", "HOLD"})
               => <<records[n].userId, records[n].ticker, signal[records[n].ticker]>> \in pushed

\* Down market: one ticker's BUY was blocked while the other's SELL or HOLD
\* reached its subscriber
C8_Witness ==
    /\ NotifiedAll /\ trend = "DOWN"
    /\ \E t \in Tickers : signal[t] = "BUY" /\ ~Kept(t)
    /\ \E n \in sent : n[3] \in {"SELL", "HOLD"}

\* Up market: a BUY reached its subscriber
C8_WitnessUp ==
    /\ NotifiedAll /\ trend = "UP" /\ \E n \in sent : n[3] = "BUY"

\* the index history sufficed and SMA(20) is a number
Determined(m) == ~m.raises /\ m.len >= 20 /\ m.hasCol /\ m.ma20 # NaN

\* C9: with at least 20 index bars and SMA(20) defined, the trend is Up if
\* and only if the latest close is strictly above SMA(20) and Down otherwise;
\* a Down rationale shows the close and the SMA(20), each to the nearest point.
C9_TrendRule ==
    (mpc # "start" /\ Determined(mkt)) =>
        /\ trend = "UP" <=> mkt.close > mkt.ma20
        /\ trend = "DOWN" <=> mkt.close <= mkt.ma20
        /\ trend = "DOWN" =>
               /\ 10 * trend_msg.price - mkt.close \in -5..5
               /\ 10 * trend_msg.ma20 - mkt.ma20 \in -5..5

\* the close equal to SMA(20): Down
C9_Witness ==
    /\ mpc # "start" /\ Determined(mkt) /\ mkt.close = mkt.ma20
    /\ trend = "DOWN" /\ trend_msg.price = 18000 /\ trend_msg.ma20 = 18000

\* a reading check_market_trend made by comparing the close with SMA(20)
ConfirmedUp(m) == Determined(m) /\ check_market_trend(m).trend = "UP"

\* C10: when the trend cannot be determined the filter fails open (BUY is
\* let through as under Up) and the result is a degraded state distinct from
\* a confirmed Up: neither the regime the gate tests nor the rationale the
\* log shows is the one a confirmed Up reading gives.
C10_DegradedDistinctFromUp ==
    (mpc # "start" /\ ~Determined(mkt)) =>
        /\ ~GateBlocks("BUY", trend)
        /\ \A m \in MarketInputs : ConfirmedUp(m) =>
               /\ check_market_trend(m).trend # trend
               /\ check_market_trend(m).msg.kind # trend_msg.kind

\* What the code does give in that case: regime UP, and a rationale of its
\* own ("cannot be determined") that no confirmed reading carries.
C10_FailOpenRationaleOnly ==
    (mpc # "start" /\ ~Determined(mkt)) =>
        /\ trend = "UP"
        /\ trend_msg.kind \in {"error", "insufficient", "ma_failed", "ma_nan"}

\* ------------------------------------------------------------------------
\* Batch properties (SpecBatch, SpecMain)
\* ------------------------------------------------------------------------

\* run_backtest was called for ticker number n of the batch
Evaluated(n) == n <= Len(BatchTickers) - Len(tleft) + (IF xpc \in {"running", "crashed"} THEN 1 ELSE 0)

\* C12: a failure while handling one instrument is local to it: when the
\* backtest batch stops, run_backtest has been called for every ticker of
\* the batch and the collected results are printed.
C12_FailureIsLocal ==
    xpc \in {"printed", "crashed"} =>
        /\ \A n \in 1..Len(BatchTickers) : Evaluated(n)
        /\ xpc = "printed"

\* The live half of C12: when main ends after the signal loop kept a signal,
\* push_flex_notification was called for every subscriber of a kept ticker.
C12_LiveNotifyLocal ==
    (mpc = "done" /\ DOMAIN ticker_signals # {}) =>
        \A n \in 1..Len(records) :
            (records[n].userId # "" /\ records[n].ticker \in DOMAIN ticker_signals)
            => <<records[n].userId, records[n].ticker,
                 ticker_signals[records[n].ticker].type>> \in pushed

\* What does hold of the backtest batch: an instrument without data (empty
\* download, no stochastic) is skipped and the batch goes on.
C12_NoDataIsLocal ==
    [][(xpc = "running" /\ bpc = "none") => xpc' = "loop" /\ tleft' = Tail(tleft)
                                            /\ results' = results]_vars

====
